---- MODULE Spec2Model ----
(***************************************************************************)
(* Requirement-processing pipeline of the Code Generation Agent server:    *)
(* the task store (RequirementTaskServiceImpl), the BullMQ queue and its   *)
(* worker (RequirementQueueServiceImpl), the pipeline entry point          *)
(* (CodeGenerationServiceImpl.processRequirement) and the two event        *)
(* listeners (code-generated, code-commit).                                *)
(*                                                                         *)
(* Every await of the TypeScript code is a point where other handlers may  *)
(* run; an action is one handler segment that ends with its database or    *)
(* queue effect.  External calls (database, Redis, LLM, Git) either return *)
(* or fail; the choice is nondeterministic.  The initial state is the      *)
(* running application: queue and worker exist and the delivery callback   *)
(* of registerTaskProcessor is attached to the worker.                     *)
(*                                                                         *)
(* The quality checker, the LLM service and commitToGit are each followed  *)
(* through one call in a specification of their own (SpecQuality, SpecLlm, *)
(* SpecGit); SpecDirect is the pipeline variant that commits directly.     *)
(***************************************************************************)
EXTENDS Integers, Sequences, FiniteSets, Bags, TLC

\* ---------------------------------------------------------------- bounds
MaxTasks == 2          \* task ids the database hands out: 1..MaxTasks
MaxRuns == 2           \* calls of processRequirement explored
MaxDirectAdds == 1     \* calls of addTask made outside createRequirementTask
MaxStalledCount == 1   \* stalls after which the worker fails an active job
Concurrency == 1       \* MAX_CONCURRENT_TASKS of the explored deployment
MaxHistory == 4        \* status writes remembered per task
MaxFallback == 2       \* entries of LLM_FALLBACK_ORDER explored
MaxFiles == 2          \* files of the artifact handed to commitToGit
MaxCleans == 2         \* calls of cleanQueue explored
MaxConstraints == 2    \* entries of rawAnalysis.constraints

\* ------------------------------------------------------------- constants
Attempts == 3          \* defaultJobOptions.attempts

TaskIds == 1..MaxTasks

\* RequirementStatus (prisma enum)
Pending == "pending"
InProgress == "in_progress"
Completed == "completed"
Failed == "failed"
Terminal == {Completed, Failed}

\* TaskPriority (prisma enum); "none" is a missing priority
PriorityInputs == {"critical", "none"}

NonTerminalJob == {"waiting", "active", "delayed"}

VARIABLES
  tx,        \* tx[t]: position of createRequirementTask for the row with id t
  tasks,     \* tasks[t]: the requirement_tasks row with id t
  writes,    \* writes[t]: status values written to row t, in_progress runs merged
  jobs,      \* the jobs of queue 'requirement-processing'
  inflight,  \* job ids whose registered processor callback is running
  delivered, \* task ids handed to the registered processor at least once
  raised,    \* job ids whose registered processor callback raised
  lastAdd,   \* the last addTask call: its taskId and the job id it returned
  directAdds,\* addTask calls made outside createRequirementTask so far
  runs,      \* pipeline invocations under way: processRequirement and the listeners it triggers
  calls,     \* processRequirement calls made so far
  metrics,   \* metrics[t]: number of quality_metrics rows with task_id t
  check,     \* the checkCodeQuality call followed through its steps
  llm,       \* the callLLmApi call followed through its steps
  git,       \* the commitToGit call followed through its steps
  compare,   \* the processRequirementWithModelComparison call followed through its steps
  cleanup,   \* cleanQueue: the finished jobs older than the grace period, and the calls made
  analysis,  \* the structural analysis of one raw analysis result
  boot       \* the start-up of the application: providers constructed, hooks run

dbVars == <<tx, tasks, writes>>
queueVars == <<jobs, inflight, delivered, raised, lastAdd, directAdds>>
runVars == <<runs, calls>>
\* state of the services that have a specification of their own
serviceVars == <<check, llm, git, compare, cleanup, analysis, boot>>
vars == <<tx, tasks, writes, jobs, inflight, delivered, raised, lastAdd, directAdds, runs, calls,
          metrics, serviceVars>>

\* ------------------------------------------------------------ task store
NoDetails == [error |-> "none", stage |-> "none", commitHash |-> "none"]

\* the row tx.requirementTask.create inserts
NewRow == [status |-> Pending, progress |-> 0, details |-> NoDetails]

\* a row is seen by other connections only once its transaction committed
RowVisible(t) == t \in TaskIds /\ tx[t] = "committed"

\* the history of status values, consecutive in_progress writes merged; the
\* legal histories have at most three entries, so the fourth is the last kept
Recorded(h, st) ==
  IF (h # <<>> /\ h[Len(h)] = InProgress /\ st = InProgress) \/ Len(h) >= MaxHistory
    THEN h ELSE Append(h, st)

\* updateTaskStatus: a single-row update of status, progress and details;
\* the code checks nothing about the row's current status
UpdateTaskStatus(t, st, pr, det) ==
  /\ tasks' = [tasks EXCEPT ![t] = [status |-> st, progress |-> pr, details |-> det]]
  /\ writes' = [writes EXCEPT ![t] = Recorded(@, st)]

\* ----------------------------------------------------------------- queue
\* getPriorityValue: priorities[priority] || 3
getPriorityValue(p) ==
  CASE p = "critical" -> 1
    [] p = "high" -> 2
    [] p = "medium" -> 3
    [] p = "low" -> 4
    [] OTHER -> 3

JobsOf(t) == {j \in jobs : j.taskId = t}
JobIds == {j.id : j \in jobs}
CountIn(st) == Cardinality({j \in jobs : j.state = st})

\* a job as the queue stores it
NewJob(id, t, p) ==
  [id |-> id, taskId |-> t, state |-> "waiting", priority |-> getPriorityValue(p),
   started |-> 0, stalls |-> 0]

\* addTask without the jobId option
JobIdOmitted(taskId) == 0

\* the jobId option addTask passes to Queue.add (0: no option, BullMQ numbers the job)
JobIdOption(taskId) == taskId

\* the id Queue.add gives the job; the ids it generates itself are kept apart
\* from task ids by their sign
AssignedId(opt) == IF opt # 0 THEN opt ELSE 0 - (Cardinality(jobs) + 1)

\* a Queue.add that replaces the job already stored under the id
QueueAddReplacing(id, t, p) ==
  {j \in jobs : j.id # id} \cup {NewJob(id, t, p)}

\* Queue.add: a job whose id is already in the queue is not added again
QueueAdd(id, t, p) ==
  IF id \in JobIds THEN jobs ELSE jobs \cup {NewJob(id, t, p)}

\* addTask(taskId, priority): returns job.id
AddTask(t, p) ==
  LET id == AssignedId(JobIdOption(t))
      after == QueueAdd(id, t, p)
  IN /\ jobs' = after
     /\ lastAdd' = [task |-> t, ret |-> id]

\* ------------------------------------------------- createRequirementTask
NoRow == [status |-> "none", progress |-> 0, details |-> NoDetails]

\* the database numbers the rows in order
NextTaskId(t) == tx[t] = "none" /\ \A u \in TaskIds : u < t => tx[u] # "none"

\* tx.requirementTask.create inside $transaction (or its failure)
CreateInsert(t, ok) ==
  /\ NextTaskId(t)
  /\ IF ok
       THEN /\ tx' = [tx EXCEPT ![t] = "inserted"]
            /\ tasks' = [tasks EXCEPT ![t] = NewRow]
            /\ writes' = [writes EXCEPT ![t] = <<Pending>>]
       ELSE /\ tx' = [tx EXCEPT ![t] = "aborted"]
            /\ UNCHANGED <<tasks, writes>>
  /\ UNCHANGED <<queueVars, runVars>>
  /\ UNCHANGED <<metrics, serviceVars>>

\* await addTask(task.id, priority) inside the transaction; a failure rolls
\* the insert back
CreateEnqueue(t, p, ok) ==
  /\ tx[t] = "inserted"
  /\ IF ok
       THEN /\ AddTask(t, p)
            /\ tx' = [tx EXCEPT ![t] = "enqueued"]
            /\ UNCHANGED <<tasks, writes>>
       ELSE /\ tx' = [tx EXCEPT ![t] = "aborted"]
            /\ tasks' = [tasks EXCEPT ![t] = NoRow]
            /\ writes' = [writes EXCEPT ![t] = <<>>]
            /\ UNCHANGED <<jobs, lastAdd>>
  /\ UNCHANGED <<inflight, delivered, raised, directAdds, runVars>>
  /\ UNCHANGED <<metrics, serviceVars>>

\* the transaction callback returned: the database commits, or fails to and
\* rolls the insert back; the job added to Redis is not part of the transaction
CreateCommit(t, ok) ==
  /\ tx[t] = "enqueued"
  /\ IF ok
       THEN /\ tx' = [tx EXCEPT ![t] = "committed"]
            /\ UNCHANGED <<tasks, writes>>
       ELSE /\ tx' = [tx EXCEPT ![t] = "aborted"]
            /\ tasks' = [tasks EXCEPT ![t] = NoRow]
            /\ writes' = [writes EXCEPT ![t] = <<>>]
  /\ UNCHANGED <<queueVars, runVars>>
  /\ UNCHANGED <<metrics, serviceVars>>

\* addTask called for an existing task outside createRequirementTask
AddTaskCall(t, p) ==
  /\ directAdds < MaxDirectAdds
  /\ RowVisible(t)
  /\ AddTask(t, p)
  /\ directAdds' = directAdds + 1
  /\ UNCHANGED <<dbVars, inflight, delivered, raised, runVars>>
  /\ UNCHANGED <<metrics, serviceVars>>

\* ---------------------------------------------------------------- worker
\* a worker that takes any waiting job, whatever its priority
AnyWaiting(j) == j.state = "waiting"

\* the job BullMQ hands the worker: a waiting job of the smallest priority value
MinWaiting(j) ==
  /\ j.state = "waiting"
  /\ \A k \in jobs : k.state = "waiting" => j.priority <= k.priority

Moved(j, st) == (jobs \ {j}) \cup {[j EXCEPT !.state = st]}

\* the worker fetches the next job; on('active') logs
WorkerActive(j) ==
  /\ j \in jobs /\ MinWaiting(j)
  /\ CountIn("active") < Concurrency
  /\ jobs' = (jobs \ {j}) \cup {[j EXCEPT !.state = "active", !.started = @ + 1]}
  /\ UNCHANGED <<dbVars, inflight, delivered, raised, lastAdd, directAdds, runVars>>
  /\ UNCHANGED <<metrics, serviceVars>>

\* the Worker's processor returns job.data; the job is completed and the
\* on('completed') handlers run: a log line, and the handler installed by
\* registerTaskProcessor, which starts processorFn(job.data.taskId)
WorkerCompleted(j) ==
  /\ j \in jobs /\ j.state = "active"
  /\ jobs' = Moved(j, "completed")
  /\ inflight' = inflight \cup {j.id}
  /\ delivered' = delivered \cup {j.taskId}
  /\ UNCHANGED <<dbVars, raised, lastAdd, directAdds, runVars>>
  /\ UNCHANGED <<metrics, serviceVars>>

\* the lock of an active job expires: on('stalled') logs and the job goes
\* back to waiting, or, stalled too often, is failed and on('failed') logs
WorkerStalled(j) ==
  /\ j \in jobs /\ j.state = "active"
  /\ jobs' = IF j.stalls < MaxStalledCount
               THEN (jobs \ {j}) \cup {[j EXCEPT !.state = "waiting", !.stalls = @ + 1]}
               ELSE Moved(j, "failed")
  /\ UNCHANGED <<dbVars, inflight, delivered, raised, lastAdd, directAdds, runVars>>
  /\ UNCHANGED <<metrics, serviceVars>>

TaskOfJob(id) == (CHOOSE j \in jobs : j.id = id).taskId

\* processRequirementTask(taskId) inside the try/catch of
\* registerTaskProcessor: one updateTaskStatus(in_progress, 0.1); a missing
\* row or a database error raises, and the catch logs it
ProcessRequirementTask(id, ok) ==
  /\ id \in inflight
  /\ LET t == TaskOfJob(id)
     IN IF RowVisible(t) /\ ok
          THEN /\ UpdateTaskStatus(t, InProgress, 10, NoDetails)
               /\ UNCHANGED raised
          ELSE /\ raised' = raised \cup {id}
               /\ UNCHANGED <<tasks, writes>>
  /\ inflight' = inflight \ {id}
  /\ UNCHANGED <<tx, jobs, delivered, lastAdd, directAdds, runVars>>
  /\ UNCHANGED <<metrics, serviceVars>>

\* -------------------------------------------------------------- pipeline
\* what the generator hands over: an artifact with files, or one without
ArtifactKinds == {"files", "empty"}

\* sub-scores checkCodeQuality may return (codeQuality, coverage, syntax)
QualityOutcomes ==
  { [cq |-> 90, rc |-> 90, sv |-> 100],   \* aggregate 92
    [cq |-> 90, rc |-> 50, sv |-> 0],     \* aggregate 60, codeQuality above 80
    [cq |-> 80, rc |-> 100, sv |-> 100],  \* aggregate 90, codeQuality not above 80
    [cq |-> 40, rc |-> 50, sv |-> 60] }   \* aggregate 46

NoQuality == [cq |-> 0, rc |-> 0, sv |-> 0]

\* no commitToGit call is being followed
NoCommit ==
  [pc |-> "idle", dir |-> "none", files |-> 0, written |-> 0,
   hash |-> "none", failedAt |-> "none", outcome |-> "none", warned |-> FALSE,
   keys |-> <<>>, taskOutputPath |-> <<>>, outputPath |-> <<>>,
   paths |-> <<>>, filesChanged |-> <<>>]

\* no callLLmApi call is being followed
NoCall ==
  [pc |-> "idle", reg |-> <<>>, order |-> <<>>, default |-> "none", provider |-> "none",
   useFallback |-> "unset", exclude |-> {}, queue |-> <<>>, log |-> <<>>, skipped |-> {}, ret |-> "none",
   lastError |-> "none", answer |-> "none", probe |-> "none"]

\* no checkCodeQuality call is being followed
NoCheck ==
  [pc |-> "idle", task |-> 0, cq |-> 0, rc |-> 0, sv |-> 0, passed |-> FALSE,
   syn |-> <<0, 0, 0>>, fsc |-> 0, cov |-> [ok |-> FALSE, score |-> 0],
   language |-> "typescript"]

\* no processRequirementWithModelComparison call is being followed
NoCompare ==
  [pc |-> "idle", variant |-> "none", sizes |-> <<>>, best |-> 0, i |-> 0,
   commits |-> {}, listed |-> {}, failed |-> {}]

\* no job has outlived a grace period and cleanQueue was not called
NoCleanup == [aged |-> {}, calls |-> 0]

\* no raw analysis result was standardised
NoAnalysis == [pc |-> "idle", constraints |-> <<>>, normalized |-> <<>>]

\* no provider of the application was constructed
NotStarted == [pc |-> "constructing", built |-> <<>>, worker |-> FALSE, registered |-> FALSE]

\* commitResult.commit as simple-git reports it: a hash, or '' when nothing was committed
CommitHashes == {"c0ffee", ""}

NewRun(t, pc) == [task |-> t, pc |-> pc, gen |-> "none", q |-> NoQuality]

\* the invocations under way, as a bag: two calls for one task may be at the same place
Active == BagToSet(runs)
Spawn(r) == runs' = runs (+) SetToBag({r})
Become(r, r2) == runs' = (runs (-) SetToBag({r})) (+) SetToBag({r2})
Goto(r, pc) == Become(r, [r EXCEPT !.pc = pc])
Return(r) == runs' = runs (-) SetToBag({r})

ErrorDetails(msg) == [NoDetails EXCEPT !.error = msg]
CommitErrorDetails(msg) == [NoDetails EXCEPT !.error = msg, !.stage = "code_commit"]

\* an updateTaskStatus whose failure (missing row, database error) leaves the row alone
TryUpdate(t, ok, st, pr, det) ==
  IF RowVisible(t) /\ ok
    THEN UpdateTaskStatus(t, st, pr, det)
    ELSE UNCHANGED <<tasks, writes>>

\* processRequirement(taskId), up to its first write: findUnique, then
\* updateTaskStatus(in_progress, 0.1)
ProcessRequirement(t, ok) ==
  /\ calls < MaxRuns
  /\ calls' = calls + 1
  /\ IF RowVisible(t) /\ ok
       THEN /\ UpdateTaskStatus(t, InProgress, 10, NoDetails)
            /\ Spawn(NewRun(t, "analysis"))
       ELSE /\ Spawn(NewRun(t, "catch"))
            /\ UNCHANGED <<tasks, writes>>
  /\ UNCHANGED <<tx, queueVars>>
  /\ UNCHANGED <<metrics, serviceVars>>

\* the analysis returned (or the LLM failed): updateTaskStatus(in_progress, 0.3)
RequirementAnalyzed(r, llmOk, ok) ==
  /\ r \in Active /\ r.pc = "analysis"
  /\ IF llmOk /\ ok
       THEN /\ UpdateTaskStatus(r.task, InProgress, 30, NoDetails)
            /\ Goto(r, "generation")
       ELSE /\ Goto(r, "catch")
            /\ UNCHANGED <<tasks, writes>>
  /\ UNCHANGED <<tx, queueVars, calls>>
  /\ UNCHANGED <<metrics, serviceVars>>

\* the generator returned (or failed): the CodeGeneratedEvent is emitted and
\* processRequirement returns
CodeGenerated(r, out) ==
  /\ r \in Active /\ r.pc = "generation"
  /\ IF out = "throw"
       THEN Goto(r, "catch")
       ELSE Become(r, [r EXCEPT !.gen = out, !.pc = "generated"])
  /\ UNCHANGED <<dbVars, queueVars, calls>>
  /\ UNCHANGED <<metrics, serviceVars>>

\* the catch block of processRequirement: updateTaskStatus(failed, 0, {error})
ProcessRequirementCatch(r, ok) ==
  /\ r \in Active /\ r.pc = "catch"
  /\ TryUpdate(r.task, ok, Failed, 0, ErrorDetails("processing error"))
  /\ Return(r)
  /\ UNCHANGED <<tx, queueVars, calls>>
  /\ UNCHANGED <<metrics, serviceVars>>

\* CodeGeneratedEvent.validate: the artifact must have at least one key
ValidGenerated(r) == r.gen = "files"

\* CodeGenerateEventListener.handle: validateEvent, then the first write of
\* CodeGenerationProcessorImpl.processEvent, updateTaskStatus(in_progress, 0.5);
\* an error goes to onError, which calls markTaskFailed and swallows its failure
GenerateListenerStart(r, ok, ok2) ==
  /\ r \in Active /\ r.pc = "generated"
  /\ IF ValidGenerated(r) /\ RowVisible(r.task) /\ ok
       THEN /\ UpdateTaskStatus(r.task, InProgress, 50, NoDetails)
            /\ Goto(r, "quality")
       ELSE /\ TryUpdate(r.task, ok2, Failed, 0,
                         ErrorDetails(IF ValidGenerated(r)
                                        THEN "database error" ELSE "Invalid event payload"))
            /\ Return(r)
  /\ UNCHANGED <<tx, queueVars, calls>>
  /\ UNCHANGED <<metrics, serviceVars>>

\* a checkCodeQuality that returns without storing its scores
SaveQualityMetricsSkipped(t) == metrics

\* saveQualityMetrics: qualityMetric.create, one more row for the task
SaveQualityMetrics(t) == [metrics EXCEPT ![t] = @ + 1]

\* checkCodeQuality wrote its quality_metrics row and returned its scores
\* (or raised before the row was written), then updateTaskStatus(in_progress, 0.7)
QualityChecked(r, out, threw, ok, ok2) ==
  /\ r \in Active /\ r.pc = "quality"
  /\ metrics' = IF threw THEN metrics ELSE SaveQualityMetrics(r.task)
  /\ IF ~threw /\ RowVisible(r.task) /\ ok
       THEN /\ UpdateTaskStatus(r.task, InProgress, 70, NoDetails)
            /\ Become(r, [r EXCEPT !.q = out, !.pc = "checked"])
       ELSE /\ TryUpdate(r.task, ok2, Failed, 0, ErrorDetails("quality check error"))
            /\ Return(r)
  /\ UNCHANGED <<tx, queueVars, calls>>
  /\ UNCHANGED serviceVars

\* the gate of CodeGenerateEventListener.processEvent
HighQuality(q) == q.cq > 80

\* rest of CodeGenerateEventListener.processEvent.  Above the gate,
\* markTaskCompleted emits the CodeCommitdEvent and CodeCommitEventListener
\* starts: validateEvent, then updateTaskStatus(in_progress, 0.8).  Otherwise
\* onError(Low code quality score) marks the task failed.
QualityGate(r, ok, ok2) ==
  /\ r \in Active /\ r.pc = "checked"
  /\ IF HighQuality(r.q)
       THEN IF RowVisible(r.task) /\ ok
              THEN /\ UpdateTaskStatus(r.task, InProgress, 80, NoDetails)
                   /\ Goto(r, "committing")
              ELSE /\ TryUpdate(r.task, ok2, Failed, 0,
                                CommitErrorDetails("Failed to commit code: database error"))
                   /\ Return(r)
       ELSE /\ TryUpdate(r.task, ok2, Failed, 0, ErrorDetails("Low code quality score"))
            /\ Return(r)
  /\ UNCHANGED <<tx, queueVars, calls>>
  /\ UNCHANGED <<metrics, serviceVars>>

\* commitToGit returned (or raised).  With a commit hash,
\* handleCommitCompletion writes completed and swallows a failure of that
\* write; without one, or on an error, onError marks the task failed.
CodeCommitted(r, out, ok) ==
  /\ r \in Active /\ r.pc = "committing"
  /\ IF out # "throw" /\ out # ""
       THEN TryUpdate(r.task, ok, Completed, 100, [NoDetails EXCEPT !.commitHash = out])
       ELSE TryUpdate(r.task, ok, Failed, 0,
                      CommitErrorDetails(IF out = "throw"
                                           THEN "Failed to commit code: git error"
                                           ELSE "Failed to commit code: Failed to get commit hash"))
  /\ Return(r)
  /\ UNCHANGED <<tx, queueVars, calls>>
  /\ UNCHANGED <<metrics, serviceVars>>

\* ------------------------------------------------------- the state machine
Init ==
  /\ tx = [t \in TaskIds |-> "none"]
  /\ tasks = [t \in TaskIds |-> NoRow]
  /\ writes = [t \in TaskIds |-> <<>>]
  /\ jobs = {}
  /\ inflight = {}
  /\ delivered = {}
  /\ raised = {}
  /\ lastAdd = [task |-> 0, ret |-> 0]
  /\ directAdds = 0
  /\ runs = EmptyBag
  /\ calls = 0
  /\ metrics = [t \in TaskIds |-> 0]
  /\ check = NoCheck
  /\ llm = NoCall
  /\ git = NoCommit
  /\ compare = NoCompare
  /\ cleanup = NoCleanup
  /\ analysis = NoAnalysis
  /\ boot = NotStarted

\* the task followed through the pipeline
PipelineTasks == {1}

\* createRequirementTask, addTask, the worker and the delivery callback
QueueStep(T, P) ==
  \/ \E t \in T, ok \in BOOLEAN : CreateInsert(t, ok)
  \/ \E t \in T, p \in P, ok \in BOOLEAN : CreateEnqueue(t, p, ok)
  \/ \E t \in T, ok \in BOOLEAN : CreateCommit(t, ok)
  \/ \E t \in T, p \in P : AddTaskCall(t, p)
  \/ \E j \in jobs : WorkerActive(j)
  \/ \E j \in jobs : WorkerCompleted(j)
  \/ \E j \in jobs : WorkerStalled(j)
  \/ \E id \in inflight, ok \in BOOLEAN : ProcessRequirementTask(id, ok)

\* processRequirement and the two event listeners
PipelineStep ==
  \/ \E t \in TaskIds, ok \in BOOLEAN : ProcessRequirement(t, ok)
  \/ \E r \in Active, llmOk \in BOOLEAN, ok \in BOOLEAN : RequirementAnalyzed(r, llmOk, ok)
  \/ \E r \in Active, out \in ArtifactKinds \cup {"throw"} : CodeGenerated(r, out)
  \/ \E r \in Active, ok \in BOOLEAN : ProcessRequirementCatch(r, ok)
  \/ \E r \in Active, ok \in BOOLEAN, ok2 \in BOOLEAN : GenerateListenerStart(r, ok, ok2)
  \/ \E r \in Active, out \in QualityOutcomes, threw \in BOOLEAN, ok \in BOOLEAN, ok2 \in BOOLEAN :
       QualityChecked(r, out, threw, ok, ok2)
  \/ \E r \in Active, ok \in BOOLEAN, ok2 \in BOOLEAN : QualityGate(r, ok, ok2)
  \/ \E r \in Active, out \in CommitHashes \cup {"throw"}, ok \in BOOLEAN : CodeCommitted(r, out, ok)

\* one task from submission to its final status
Next == QueueStep(PipelineTasks, PriorityInputs) \/ PipelineStep

\* the queue under several submissions, all of the default priority
NextQueue == QueueStep(TaskIds, {"none"})

Spec == Init /\ [][Next]_vars

SpecQueue == Init /\ [][NextQueue]_vars

\* Handlers that have started run on: the event loop resumes every awaited
\* call that returned or failed.  Submissions, direct addTask calls, calls of
\* processRequirement and stalls are left to the environment.
HandlerStep ==
  \/ \E t \in PipelineTasks, p \in PriorityInputs, ok \in BOOLEAN : CreateEnqueue(t, p, ok)
  \/ \E t \in PipelineTasks, ok \in BOOLEAN : CreateCommit(t, ok)
  \/ \E j \in jobs : WorkerActive(j)
  \/ \E j \in jobs : WorkerCompleted(j)
  \/ \E id \in inflight, ok \in BOOLEAN : ProcessRequirementTask(id, ok)
  \/ \E r \in Active, llmOk \in BOOLEAN, ok \in BOOLEAN : RequirementAnalyzed(r, llmOk, ok)
  \/ \E r \in Active, out \in ArtifactKinds \cup {"throw"} : CodeGenerated(r, out)
  \/ \E r \in Active, ok \in BOOLEAN : ProcessRequirementCatch(r, ok)
  \/ \E r \in Active, ok \in BOOLEAN, ok2 \in BOOLEAN : GenerateListenerStart(r, ok, ok2)
  \/ \E r \in Active, out \in QualityOutcomes, threw \in BOOLEAN, ok \in BOOLEAN, ok2 \in BOOLEAN :
       QualityChecked(r, out, threw, ok, ok2)
  \/ \E r \in Active, ok \in BOOLEAN, ok2 \in BOOLEAN : QualityGate(r, ok, ok2)
  \/ \E r \in Active, out \in CommitHashes \cup {"throw"}, ok \in BOOLEAN : CodeCommitted(r, out, ok)

FairSpec == Spec /\ WF_vars(HandlerStep)

\* ------------------------------------------ pipeline, direct-commit variant
\* CodeGenerationServiceImpl of code-generation.service.ts: processRequirement
\* runs all five stages itself, inside one try/catch.

\* findUnique, then updateTaskStatus(in_progress, 0.1)
DirectProcessRequirement(t, ok) ==
  /\ calls < MaxRuns
  /\ calls' = calls + 1
  /\ IF RowVisible(t) /\ ok
       THEN /\ UpdateTaskStatus(t, InProgress, 10, NoDetails)
            /\ Spawn(NewRun(t, "d_analysis"))
       ELSE /\ Spawn(NewRun(t, "d_catch"))
            /\ UNCHANGED <<tasks, writes>>
  /\ UNCHANGED <<tx, queueVars>>
  /\ UNCHANGED <<metrics, serviceVars>>

\* the analysis returned (or raised): updateTaskStatus(in_progress, 0.3)
DirectAnalyzed(r, llmOk, ok) ==
  /\ r \in Active /\ r.pc = "d_analysis"
  /\ IF llmOk /\ RowVisible(r.task) /\ ok
       THEN /\ UpdateTaskStatus(r.task, InProgress, 30, NoDetails)
            /\ Goto(r, "d_generation")
       ELSE /\ Goto(r, "d_catch")
            /\ UNCHANGED <<tasks, writes>>
  /\ UNCHANGED <<tx, queueVars, calls>>
  /\ UNCHANGED <<metrics, serviceVars>>

\* the generator returned (or raised): updateTaskStatus(in_progress, 0.5)
DirectGenerated(r, out, ok) ==
  /\ r \in Active /\ r.pc = "d_generation"
  /\ IF out # "throw" /\ RowVisible(r.task) /\ ok
       THEN /\ UpdateTaskStatus(r.task, InProgress, 50, NoDetails)
            /\ Become(r, [r EXCEPT !.gen = out, !.pc = "d_quality"])
       ELSE /\ Goto(r, "d_catch")
            /\ UNCHANGED <<tasks, writes>>
  /\ UNCHANGED <<tx, queueVars, calls>>
  /\ UNCHANGED <<metrics, serviceVars>>

\* checkCodeQuality returned (or raised): updateTaskStatus(in_progress, 0.7);
\* the result is recorded in the details and not tested
DirectQualityChecked(r, out, threw, ok) ==
  /\ r \in Active /\ r.pc = "d_quality"
  /\ metrics' = IF threw THEN metrics ELSE SaveQualityMetrics(r.task)
  /\ IF ~threw /\ RowVisible(r.task) /\ ok
       THEN /\ UpdateTaskStatus(r.task, InProgress, 70, NoDetails)
            /\ Become(r, [r EXCEPT !.q = out, !.pc = "d_commit"])
       ELSE /\ Goto(r, "d_catch")
            /\ UNCHANGED <<tasks, writes>>
  /\ UNCHANGED <<tx, queueVars, calls>>
  /\ UNCHANGED serviceVars

\* commitToGit returned (or raised): updateTaskStatus(completed, 1.0) with
\* commitResult.commitHash as returned
DirectCommitted(r, out, ok) ==
  /\ r \in Active /\ r.pc = "d_commit"
  /\ IF out # "throw" /\ RowVisible(r.task) /\ ok
       THEN /\ UpdateTaskStatus(r.task, Completed, 100, [NoDetails EXCEPT !.commitHash = out])
            /\ Return(r)
       ELSE /\ Goto(r, "d_catch")
            /\ UNCHANGED <<tasks, writes>>
  /\ UNCHANGED <<tx, queueVars, calls>>
  /\ UNCHANGED <<metrics, serviceVars>>

\* the catch block: updateTaskStatus(failed, 0, {error})
DirectCatch(r, ok) ==
  /\ r \in Active /\ r.pc = "d_catch"
  /\ TryUpdate(r.task, ok, Failed, 0, ErrorDetails("processing error"))
  /\ Return(r)
  /\ UNCHANGED <<tx, queueVars, calls>>
  /\ UNCHANGED <<metrics, serviceVars>>

DirectStep ==
  \/ \E t \in PipelineTasks, ok \in BOOLEAN : DirectProcessRequirement(t, ok)
  \/ \E r \in Active, llmOk \in BOOLEAN, ok \in BOOLEAN : DirectAnalyzed(r, llmOk, ok)
  \/ \E r \in Active, out \in ArtifactKinds \cup {"throw"}, ok \in BOOLEAN : DirectGenerated(r, out, ok)
  \/ \E r \in Active, out \in QualityOutcomes, threw \in BOOLEAN, ok \in BOOLEAN :
       DirectQualityChecked(r, out, threw, ok)
  \/ \E r \in Active, out \in CommitHashes \cup {"throw"}, ok \in BOOLEAN : DirectCommitted(r, out, ok)
  \/ \E r \in Active, ok \in BOOLEAN : DirectCatch(r, ok)

\* submission of one task and the direct-commit pipeline
CreateStep ==
  \/ \E t \in PipelineTasks, ok \in BOOLEAN : CreateInsert(t, ok)
  \/ \E t \in PipelineTasks, p \in PriorityInputs, ok \in BOOLEAN : CreateEnqueue(t, p, ok)
  \/ \E t \in PipelineTasks, ok \in BOOLEAN : CreateCommit(t, ok)

NextDirect == CreateStep \/ DirectStep

SpecDirect == Init /\ [][NextDirect]_vars

\* --------------------------------------------------------- quality check
\* QualityCheckServiceImpl.checkCodeQuality, from its inputs.  Scores are
\* kept in thousandths of a point, which makes 3 files of 4 and
\* 0.3 fsc + 0.7 coverage exact.

\* (source files judged valid, source files, entries) of the artifact; the
\* source files carry the extension of the task's language, the other
\* entries are a README or a JSON file
SyntaxInputs ==
  {<<0, 0, 0>>, <<0, 2, 2>>, <<1, 2, 2>>, <<3, 4, 4>>, <<1, 1, 1>>, <<1, 1, 2>>, <<0, 0, 1>>}

\* numbers the LLM may put in totalScore and coverageScore
LlmScores == {0 - 10, 0, 70, 85, 100, 150}

\* what an LLM call gives back: a parsed score, or an error (call or JSON.parse)
LlmReplies == [ok : {TRUE}, score : LlmScores] \cup {[ok |-> FALSE, score |-> 0]}

\* percentage of the required file names found among the generated files
FileCoverages == {0, 50, 100}

\* enum CodeLanguage: the values task.language can take
CodeLanguages == {"typescript", "javascript", "python", "java", "csharp", "go", "ruby", "php"}

\* the extension of a source file written in the language
SourceExtension(language) ==
  CASE language = "typescript" -> ".ts"
    [] language = "javascript" -> ".js"
    [] language = "python" -> ".py"
    [] language = "java" -> ".java"
    [] language = "csharp" -> ".cs"
    [] language = "go" -> ".go"
    [] language = "ruby" -> ".rb"
    [] language = "php" -> ".php"

\* the table of isCodeFile, keyed by language name
extensions ==
  [typescript |-> {".ts", ".tsx"}, javascript |-> {".js", ".jsx"}, python |-> {".py"},
   java |-> {".java"}, go |-> {".go"}, rust |-> {".rs"}, cpp |-> {".cpp", ".hpp", ".h"},
   cs |-> {".cs"}]

\* the key of the table a language name selects; 'c++' and 'c#' are the two
\* keys that are no identifiers
ExtensionKey(language) ==
  CASE language = "c++" -> "cpp"
    [] language = "c#" -> "cs"
    [] language \in {"cpp", "cs"} -> "none"
    [] OTHER -> language

\* isCodeFile with the extension looked up in every row of the table
isCodeFileOfAnyLanguage(ext, language) ==
  \E key \in DOMAIN extensions : ext \in extensions[key]

\* isCodeFile: extensions[language]?.includes(ext) || false
isCodeFile(ext, language) ==
  /\ ExtensionKey(language) \in DOMAIN extensions
  /\ ext \in extensions[ExtensionKey(language)]

\* validCount: the source files that isCodeFile recognises and
\* validateFileContent accepts
validCount(syn, language) ==
  IF isCodeFile(SourceExtension(language), language) THEN syn[1] ELSE 0

\* validateSyntax: (validCount / fileEntries.length) * 100 over all n entries
\* of the artifact, or 0 without entries
validateSyntax(valid, n) == IF n > 0 THEN (valid * 100 * 1000) \div n ELSE 0

\* evaluateCodeQuality: evaluation.totalScore as returned, 0 in the catch
evaluateCodeQuality(reply) == IF reply.ok THEN reply.score * 1000 ELSE 0

\* calculateRequirementCoverage: (fileStructureCoverage * 30 +
\* coverageScore * 70) / 100, and fileStructureCoverage * 100 in the catch;
\* fileStructureCoverage is the fraction fsc / 100
calculateRequirementCoverage(fsc, reply) ==
  IF reply.ok THEN (fsc * 10 * 30 + reply.score * 1000 * 70) \div 100
              ELSE fsc * 10 * 100

\* ten times overallScore
overallScore(cq, rc, sv) == cq * 5 + rc * 3 + sv * 2

\* a gate that wants more than 85
passedAbove(overall) == overall > 85 * 1000 * 10

\* passed = overallScore >= 85
passed(overall) == overall >= 85 * 1000 * 10

\* checkCodeQuality up to saveQualityMetrics: the three scores and the verdict
CheckCodeQuality(t, syn, ev, fsc, cov, language) ==
  /\ check.pc = "idle"
  /\ LET sv == validateSyntax(validCount(syn, language), syn[3])
         cq == evaluateCodeQuality(ev)
         rc == calculateRequirementCoverage(fsc, cov)
     IN check' = [pc |-> "scored", task |-> t, cq |-> cq, rc |-> rc, sv |-> sv,
                  passed |-> passed(overallScore(cq, rc, sv)),
                  syn |-> syn, fsc |-> fsc, cov |-> cov, language |-> language]
  /\ UNCHANGED <<dbVars, queueVars, runVars, metrics, llm, git, compare, cleanup, analysis, boot>>

\* saveQualityMetrics: the row is created with the three scores as computed
\* and checkCodeQuality returns, or the create fails and it raises
CheckSaved(ok) ==
  /\ check.pc = "scored"
  /\ IF ok
       THEN /\ metrics' = SaveQualityMetrics(check.task)
            /\ check' = [check EXCEPT !.pc = "saved"]
       ELSE /\ check' = [check EXCEPT !.pc = "raised"]
            /\ UNCHANGED metrics
  /\ UNCHANGED <<dbVars, queueVars, runVars, llm, git, compare, cleanup, analysis, boot>>

NextQuality ==
  \/ /\ check.pc = "idle"
     /\ \E t \in PipelineTasks, syn \in SyntaxInputs, ev \in LlmReplies,
           fsc \in FileCoverages, cov \in LlmReplies, language \in CodeLanguages :
          CheckCodeQuality(t, syn, ev, fsc, cov, language)
  \/ \E ok \in BOOLEAN : CheckSaved(ok)

SpecQuality == Init /\ [][NextQuality]_vars

\* ------------------------------------------------------------ LLM service
\* LlmIntegrationServiceImpl.callLLmApi over LLmServiceImpl, for one call.

\* registry keys in the order dynamicLlmConfig registers them: the general
\* providers, then one entry per enabled Ollama model
ProviderNames == <<"openai", "anthropic", "ollama-llama3.1">>

OllamaEntries == {"ollama-llama3.1"}

Range(f) == {f[i] : i \in DOMAIN f}

\* the apiType of the entry registered under a key
ApiType(name) == IF name \in OllamaEntries THEN "ollama" ELSE name

\* the registries a deployment can have: a general provider is absent (no API
\* key), enabled or disabled; an Ollama entry is absent or enabled
Registries ==
  {reg \in [Range(ProviderNames) -> {"absent", "enabled", "disabled"}] :
     \A n \in OllamaEntries : reg[n] # "disabled"}

\* LLM_FALLBACK_ORDER
FallbackOrders == UNION {[1..n -> Range(ProviderNames)] : n \in 0..MaxFallback}

\* options.excludeProviders
ExcludeInputs == {{}, {"openai"}, {"ollama"}, {"ollama-llama3.1"}}

\* getProvider: the entry under the key, unless missing or disabled
getProvider(reg, name) ==
  IF name \in DOMAIN reg /\ reg[name] = "enabled" THEN name ELSE "none"

\* candidates in registration order only
getProvidersInRegistryOrder(reg, order) ==
  SelectSeq(ProviderNames, LAMBDA n : reg[n] = "enabled")

\* getProvidersInFallbackOrder: the entries named in fallbackOrder, then the
\* remaining entries whose key is not in fallbackOrder
getProvidersInFallbackOrder(reg, order) ==
  SelectSeq(order, LAMBDA n : getProvider(reg, n) # "none")
    \o SelectSeq(ProviderNames, LAMBDA n : reg[n] = "enabled" /\ n \notin Range(order))

\* callProviderApi(apiType): the call methods look the provider up again,
\* under the apiType they were given, and read its model and URL
callProviderApi(reg, apiType, ok) == getProvider(reg, apiType) # "none" /\ ok

\* excludeProviders.includes(providerConfig.apiType)
Excluded(name, exclude) == ApiType(name) \in exclude

\* callLLmApi: with useFallback left unset or true the call goes to
\* callLLMApiWithFallback, with useFallback = false to callLLMApi
CallLLmApi(reg, order, default, provider, useFallback, exclude) ==
  /\ llm.pc = "idle"
  /\ llm' = [NoCall EXCEPT
               !.pc = IF useFallback # "false" THEN "fallback" ELSE "direct",
               !.reg = reg, !.order = order, !.default = default,
               !.provider = provider, !.useFallback = useFallback, !.exclude = exclude,
               !.queue = IF useFallback # "false"
                           THEN getProvidersInFallbackOrder(reg, order) ELSE <<>>]
  /\ UNCHANGED <<dbVars, queueVars, runVars, metrics, check, git, compare, cleanup, analysis, boot>>

\* one iteration of the loop of callLLMApiWithFallback; after the last
\* candidate the call raises with lastError
FallbackNext(ok) ==
  /\ llm.pc = "fallback"
  /\ IF llm.queue = <<>>
       THEN llm' = [llm EXCEPT !.pc = "failed"]
       ELSE LET n == Head(llm.queue)
            IN IF Excluded(n, llm.exclude)
                 THEN llm' = [llm EXCEPT !.queue = Tail(@), !.skipped = @ \cup {n}]
                 ELSE IF callProviderApi(llm.reg, ApiType(n), ok)
                        THEN llm' = [llm EXCEPT !.pc = "returned", !.ret = ApiType(n),
                                                !.log = Append(@, [name |-> n, ok |-> TRUE])]
                        ELSE llm' = [llm EXCEPT !.queue = Tail(@), !.lastError = n,
                                                !.log = Append(@, [name |-> n, ok |-> FALSE])]
  /\ UNCHANGED <<dbVars, queueVars, runVars, metrics, check, git, compare, cleanup, analysis, boot>>

\* callLLMApi: options.provider || defaultProvider, getProvider, callProviderApi
DirectCall(ok) ==
  /\ llm.pc = "direct"
  /\ LET name == IF llm.provider # "none" THEN llm.provider ELSE llm.default
         n == getProvider(llm.reg, name)
     IN IF n = "none"
          THEN llm' = [llm EXCEPT !.pc = "failed"]
          ELSE IF callProviderApi(llm.reg, ApiType(n), ok)
                 THEN llm' = [llm EXCEPT !.pc = "returned", !.ret = ApiType(n),
                                         !.log = Append(@, [name |-> n, ok |-> TRUE])]
                 ELSE llm' = [llm EXCEPT !.pc = "failed", !.lastError = n,
                                         !.log = Append(@, [name |-> n, ok |-> FALSE])]
  /\ UNCHANGED <<dbVars, queueVars, runVars, metrics, check, git, compare, cleanup, analysis, boot>>

NextLlm ==
  \/ /\ llm.pc = "idle"
     /\ \E reg \in Registries, order \in FallbackOrders, default \in Range(ProviderNames),
           provider \in Range(ProviderNames) \cup {"none"}, useFallback \in {"unset", "false"},
           exclude \in ExcludeInputs :
          CallLLmApi(reg, order, default, provider, useFallback, exclude)
  \/ \E ok \in BOOLEAN : FallbackNext(ok)
  \/ \E ok \in BOOLEAN : DirectCall(ok)

SpecLlm == Init /\ [][NextLlm]_vars

\* ------------------------------------------------------------ commitToGit
\* GitIntegrationServiceImpl.commitToGit, for one call.

\* the steps inside the try block, in order; "write" is taken once per file
GitSteps == <<"clone", "branch", "checkout", "write", "add", "commit", "push">>

StepAfter(step) ==
  LET i == CHOOSE k \in DOMAIN GitSteps : GitSteps[k] = step
  IN IF i < Len(GitSteps) THEN GitSteps[i + 1] ELSE "done"

\* a cleanup that is only reached when the try block completed
AfterTryNoFinally(outcome) == IF outcome = "return" THEN "finally" ELSE "raised"

\* try / catch / finally: the finally block runs after the return statement
\* and after the throw of the catch block alike
AfterTry(outcome) == "finally"

\* paths are sequences of segments.  A key of the artifact is relative or
\* starts with a slash
RelativeKey(segs) == [abs |-> FALSE, segs |-> segs]
AbsoluteKey(segs) == [abs |-> TRUE, segs |-> segs]

\* keys a generated artifact may carry
ArtifactKeys ==
  { RelativeKey(<<"src", "auth.service.ts">>), RelativeKey(<<"src", "auth.controller.ts">>),
    RelativeKey(<<"index.ts">>), RelativeKey(<<"..", "..", "x.ts">>),
    AbsoluteKey(<<"etc", "passwd">>) }

\* Object.entries(generatedCode): up to MaxFiles distinct keys, in order
KeyLists ==
  {ks \in UNION {[1..n -> ArtifactKeys] : n \in 0..MaxFiles} :
     \A a \in DOMAIN ks, b \in DOMAIN ks : a # b => ks[a] # ks[b]}

\* path.normalize over the segments: a ".." removes the segment before it;
\* at the root of an absolute path it is dropped, at the start of a
\* relative one it stays
RECURSIVE Normalize(_, _, _)
Normalize(segs, done, absolute) ==
  IF segs = <<>> THEN done
  ELSE LET s == Head(segs)
       IN IF s = ".."
            THEN IF done # <<>> /\ done[Len(done)] # ".."
                   THEN Normalize(Tail(segs), SubSeq(done, 1, Len(done) - 1), absolute)
                 ELSE IF absolute
                   THEN Normalize(Tail(segs), done, absolute)
                   ELSE Normalize(Tail(segs), Append(done, s), absolute)
            ELSE Normalize(Tail(segs), Append(done, s), absolute)

\* repoTempDir, the directory mkdtempSync made
repoTempDir == <<"tmp", "repo">>

\* path.join(repoTempDir, outputPath, filePath): the arguments are joined
\* with slashes, so the slash that starts a key does not reset the path
fullPath(outputPath, key) == Normalize(repoTempDir \o outputPath \o key.segs, <<>>, TRUE)

\* path.join(outputPath, filePath), the entry pushed to filesChanged
changedPath(outputPath, key) == Normalize(outputPath \o key.segs, <<>>, FALSE)

\* analysis.fileStructure as the analysis may give it
FileStructures ==
  { <<>>, << <<"src", "auth.service.ts">>, <<"src", "auth.controller.ts">> >>,
    << <<"test", "auth.spec.ts">>, <<"app", "main.ts">>, <<"app", "auth.ts">> >> }

\* languages followed through determineOutputPath
OutputLanguages == {"typescript", "go"}

\* defaultPaths[languageKey] || 'src'
defaultPath(language) ==
  CASE language = "java" -> <<"src", "main", "java">>
    [] language = "go" -> <<"pkg">>
    [] language = "ruby" -> <<"lib">>
    [] OTHER -> <<"src">>

\* number of entries among the first n of fileStructure whose first segment is root
RECURSIVE pathCount(_, _, _)
pathCount(fileStructure, root, n) ==
  IF n = 0 THEN 0
  ELSE pathCount(fileStructure, root, n - 1) + (IF fileStructure[n][1] = root THEN 1 ELSE 0)

\* determineOutputPath: the first segment that the most entries of
\* fileStructure start with (the first to reach the greatest count), or the
\* default path of the language
determineOutputPath(fileStructure, language) ==
  IF fileStructure = <<>> THEN defaultPath(language)
  ELSE LET total(k) == pathCount(fileStructure, fileStructure[k][1], Len(fileStructure))
           reach(k) == CHOOSE n \in 1..Len(fileStructure) :
                         /\ pathCount(fileStructure, fileStructure[k][1], n) = total(k)
                         /\ \A m \in 1..(n - 1) :
                              pathCount(fileStructure, fileStructure[k][1], m) < total(k)
           best == CHOOSE k \in 1..Len(fileStructure) :
                     /\ \A m \in 1..Len(fileStructure) : total(m) <= total(k)
                     /\ \A m \in 1..Len(fileStructure) :
                          total(m) = total(k) => reach(k) <= reach(m)
       IN <<fileStructure[best][1]>>

\* task.output_path values: missing, or a directory
TaskOutputPaths == {<<>>, <<"generated">>}

\* markTaskCompleted: task.output_path || determineOutputPath(analysis, language)
outputPathOf(taskOutputPath, fileStructure, language) ==
  IF taskOutputPath # <<>> THEN taskOutputPath
                           ELSE determineOutputPath(fileStructure, language)

\* extractRepoName and mkdtempSync; a URL without a repository name or a
\* failing mkdtempSync raises before there is a directory
CommitToGit(keys, taskOutputPath, outputPath, hash, urlOk, mkOk) ==
  /\ git.pc = "idle"
  /\ git' = IF urlOk /\ mkOk
              THEN [NoCommit EXCEPT !.pc = "clone", !.dir = "exists", !.files = Len(keys),
                                    !.hash = hash, !.keys = keys,
                                    !.taskOutputPath = taskOutputPath,
                                    !.outputPath = outputPath]
              ELSE [NoCommit EXCEPT !.pc = "raised", !.outcome = "raise",
                                    !.failedAt = IF urlOk THEN "mkdtemp" ELSE "url"]
  /\ UNCHANGED <<dbVars, queueVars, runVars, metrics, check, llm, compare, cleanup, analysis, boot>>

\* one step of the try block returned or raised; the catch block logs and
\* rethrows, the return statement follows the push
GitStep(ok) ==
  /\ git.pc \in Range(GitSteps)
  /\ IF ~ok
       THEN git' = [git EXCEPT !.pc = AfterTry("raise"), !.outcome = "raise", !.failedAt = git.pc]
       ELSE IF git.pc = "write"
              THEN IF git.written < git.files
                     THEN git' = [git EXCEPT
                            !.written = @ + 1,
                            !.paths = Append(@, fullPath(git.outputPath, git.keys[git.written + 1])),
                            !.filesChanged =
                              Append(@, changedPath(git.outputPath, git.keys[git.written + 1]))]
                     ELSE git' = [git EXCEPT !.pc = StepAfter("write")]
              ELSE IF StepAfter(git.pc) = "done"
                     THEN git' = [git EXCEPT !.pc = AfterTry("return"), !.outcome = "return"]
                     ELSE git' = [git EXCEPT !.pc = StepAfter(git.pc)]
  /\ UNCHANGED <<dbVars, queueVars, runVars, metrics, check, llm, compare, cleanup, analysis, boot>>

\* the finally block: fs.rmSync(repoTempDir, {recursive, force}); its failure
\* is caught and logged; then the call returns or raises as decided before
GitCleanup(rmOk) ==
  /\ git.pc = "finally"
  /\ git' = [git EXCEPT !.dir = IF rmOk THEN "removed" ELSE @,
                        !.warned = ~rmOk,
                        !.pc = IF git.outcome = "return" THEN "returned" ELSE "raised"]
  /\ UNCHANGED <<dbVars, queueVars, runVars, metrics, check, llm, compare, cleanup, analysis, boot>>

NextGit ==
  \/ /\ git.pc = "idle"
     /\ \E keys \in KeyLists, taskOutputPath \in TaskOutputPaths,
           fileStructure \in FileStructures, language \in OutputLanguages,
           hash \in CommitHashes, urlOk \in BOOLEAN, mkOk \in BOOLEAN :
          CommitToGit(keys, taskOutputPath,
                      outputPathOf(taskOutputPath, fileStructure, language),
                      hash, urlOk, mkOk)
  \/ \E ok \in BOOLEAN : GitStep(ok)
  \/ \E rmOk \in BOOLEAN : GitCleanup(rmOk)

SpecGit == Init /\ [][NextGit]_vars

\* ----------------------------------------------------------- commit stage
\* CodeCommitEventListener.handle for a CodeCommitdEvent from any emitter:
\* validateEvent, processEvent of the processor, and onError.

\* the artifact a commit event may carry: files, no entries, or an entry
\* whose content is not a string
CommitArtifacts == ArtifactKinds \cup {"nonstring"}

\* validateEvent: the payload's fields are there (task, language, quality
\* result, output path, analysis, repository_url, branch) and generatedCode
\* is an object with at least one key
ValidCommitEvent(gen, fieldsOk) == fieldsOk /\ gen # "empty"

\* the loop of processEvent that lets every entry through
EntriesUnchecked(gen) == gen # "empty"

\* the loop of processEvent: every entry is a string, and there is one
EntriesAccepted(gen) == gen = "files"

\* handle, up to the first write of processEvent: validateEvent, then
\* updateTaskStatus(in_progress, 0.8); an error of either goes to onError
CommitListenerStart(t, gen, fieldsOk, ok) ==
  /\ calls < MaxRuns
  /\ calls' = calls + 1
  /\ IF ValidCommitEvent(gen, fieldsOk) /\ RowVisible(t) /\ ok
       THEN /\ UpdateTaskStatus(t, InProgress, 80, NoDetails)
            /\ Spawn([NewRun(t, "c_entries") EXCEPT !.gen = gen])
       ELSE /\ Spawn([NewRun(t, "c_error") EXCEPT !.gen = gen])
            /\ UNCHANGED <<tasks, writes>>
  /\ UNCHANGED <<tx, queueVars>>
  /\ UNCHANGED <<metrics, serviceVars>>

\* the entries are tested; commitToGit is called only when they are accepted
CommitEntriesChecked(r) ==
  /\ r \in Active /\ r.pc = "c_entries"
  /\ Goto(r, IF EntriesAccepted(r.gen) THEN "c_committing" ELSE "c_error")
  /\ UNCHANGED <<dbVars, queueVars, calls>>
  /\ UNCHANGED <<metrics, serviceVars>>

\* commitToGit returned (or raised): with a commit hash handleCommitCompletion
\* writes completed and swallows a failure of that write; otherwise onError
CommitReturned(r, out, ok) ==
  /\ r \in Active /\ r.pc = "c_committing"
  /\ IF out # "throw" /\ out # ""
       THEN /\ TryUpdate(r.task, ok, Completed, 100, [NoDetails EXCEPT !.commitHash = out])
            /\ Return(r)
       ELSE /\ Goto(r, "c_error")
            /\ UNCHANGED <<tasks, writes>>
  /\ UNCHANGED <<tx, queueVars, calls>>
  /\ UNCHANGED <<metrics, serviceVars>>

\* onError: markTaskFailed, whose own failure is logged and swallowed
CommitOnError(r, ok) ==
  /\ r \in Active /\ r.pc = "c_error"
  /\ TryUpdate(r.task, ok, Failed, 0, CommitErrorDetails("Failed to commit code"))
  /\ Return(r)
  /\ UNCHANGED <<tx, queueVars, calls>>
  /\ UNCHANGED <<metrics, serviceVars>>

CommitStep ==
  \/ \E t \in PipelineTasks, gen \in CommitArtifacts, fieldsOk \in BOOLEAN, ok \in BOOLEAN :
       CommitListenerStart(t, gen, fieldsOk, ok)
  \/ \E r \in Active : CommitEntriesChecked(r)
  \/ \E r \in Active, out \in CommitHashes \cup {"throw"}, ok \in BOOLEAN : CommitReturned(r, out, ok)
  \/ \E r \in Active, ok \in BOOLEAN : CommitOnError(r, ok)

NextCommit == CreateStep \/ CommitStep

SpecCommit == Init /\ [][NextCommit]_vars

\* ------------------------------------------------- multi-model comparison
\* processRequirementWithModelComparison, from the artifacts the models
\* returned.  Two variants exist: the service of the code-generation module
\* hands the selected artifact to the event listeners ("event"), the older
\* service kept in git-integration.module.ts commits by itself ("direct").
CompareVariants == {"event", "direct"}

\* the keys of multiModelResults, in their order
ComparisonModels == <<"ollama-kevin", "ollama-deepseek-coder", "ollama-llama3.1">>

\* modelKey.replace(/OLLAMA_|ollama-|ollama_/i, '').toLowerCase()
cleanModelName(model) ==
  CASE model = "ollama-kevin" -> "kevin"
    [] model = "ollama-deepseek-coder" -> "deepseek-coder"
    [] model = "ollama-llama3.1" -> "llama3.1"
    [] OTHER -> model

\* the file counts the models may return
ArtifactSizes == [DOMAIN ComparisonModels -> 0..MaxFiles]

\* the selection loop: the first artifact with the greatest file count, or
\* 0 (the fallback model's artifact) when every artifact is empty
selectBest(sizes) ==
  IF \A k \in DOMAIN sizes : sizes[k] = 0
    THEN 0
    ELSE CHOOSE k \in DOMAIN sizes :
           /\ \A m \in DOMAIN sizes : sizes[m] <= sizes[k]
           /\ \A m \in DOMAIN sizes : m < k => sizes[m] < sizes[k]

\* a commit pushed to the task's branch (suffix "") or to <branch>-<suffix>
PushedCommit(suffix, k) == [suffix |-> suffix, artifact |-> k]

\* the models returned: the best artifact is selected
CompareGenerated(variant, sizes) ==
  /\ compare.pc = "idle"
  /\ compare' = [NoCompare EXCEPT !.pc = "main_commit", !.variant = variant,
                                  !.sizes = sizes, !.best = selectBest(sizes), !.i = 1]
  /\ UNCHANGED <<dbVars, queueVars, runVars, metrics, check, llm, git, cleanup, analysis, boot>>

\* the selected artifact went through the quality check and commitToGit on
\* task.branch (or one of them raised).  The event variant ends here: the
\* commit listener writes completed with the commit hash alone.
CompareMainCommitted(ok) ==
  /\ compare.pc = "main_commit"
  /\ compare' =
       IF ~ok THEN [compare EXCEPT !.pc = "failed"]
       ELSE [compare EXCEPT !.commits = @ \cup {PushedCommit("", compare.best)},
                            !.pc = IF compare.variant = "event" THEN "completed" ELSE "others"]
  /\ UNCHANGED <<dbVars, queueVars, runVars, metrics, check, llm, git, cleanup, analysis, boot>>

\* direct variant, one turn of the loop over multiModelResults: the selected
\* and the empty artifacts are skipped; a commit that raises (or an artifact
\* with an entry that is no string) is logged and left out
CompareOtherCommitted(ok) ==
  /\ compare.pc = "others" /\ compare.i <= Len(ComparisonModels)
  /\ LET k == compare.i
         name == cleanModelName(ComparisonModels[k])
     IN compare' =
          IF k = compare.best \/ compare.sizes[k] = 0
            THEN [compare EXCEPT !.i = k + 1]
          ELSE IF ok
            THEN [compare EXCEPT !.i = k + 1,
                                 !.commits = @ \cup {PushedCommit(name, k)},
                                 !.listed = @ \cup {name}]
            ELSE [compare EXCEPT !.i = k + 1, !.failed = @ \cup {k}]
  /\ UNCHANGED <<dbVars, queueVars, runVars, metrics, check, llm, git, cleanup, analysis, boot>>

\* direct variant: updateTaskStatus(completed, 1.0) with comparisonBranches
CompareCompleted(ok) ==
  /\ compare.pc = "others" /\ compare.i > Len(ComparisonModels)
  /\ compare' = [compare EXCEPT !.pc = IF ok THEN "completed" ELSE "failed"]
  /\ UNCHANGED <<dbVars, queueVars, runVars, metrics, check, llm, git, cleanup, analysis, boot>>

NextCompare ==
  \/ /\ compare.pc = "idle"
     /\ \E variant \in CompareVariants, sizes \in ArtifactSizes : CompareGenerated(variant, sizes)
  \/ \E ok \in BOOLEAN : CompareMainCommitted(ok)
  \/ \E ok \in BOOLEAN : CompareOtherCommitted(ok)
  \/ \E ok \in BOOLEAN : CompareCompleted(ok)

SpecCompare == Init /\ [][NextCompare]_vars

\* ------------------------------------------------------- priority order
\* the priorities a task may be submitted with ("none": the field is missing)
TaskPriorities == {"critical", "high", "medium", "low", "none"}

\* submissions of every priority and the worker taking and finishing jobs
NextPriority ==
  \/ \E t \in TaskIds, ok \in BOOLEAN : CreateInsert(t, ok)
  \/ \E t \in TaskIds, p \in TaskPriorities, ok \in BOOLEAN : CreateEnqueue(t, p, ok)
  \/ \E t \in TaskIds, ok \in BOOLEAN : CreateCommit(t, ok)
  \/ \E j \in jobs : WorkerActive(j)
  \/ \E j \in jobs : WorkerCompleted(j)

SpecPriority == Init /\ [][NextPriority]_vars

\* -------------------------------------------------------------- cleanQueue
\* the arguments cleanQueue passes to Queue.clean after the grace period:
\* clean(grace * 1000, 0) and clean(grace * 1000, 4); they are BullMQ's
\* limit, and the job type is left at its default
CleanLimits == <<0, 4>>
CleanType == "completed"

\* a completed or failed job's finishedOn falls behind the grace period
GraceElapsed(j) ==
  /\ j \in jobs /\ j.state \in {"completed", "failed"}
  /\ j.id \notin cleanup.aged
  /\ cleanup' = [cleanup EXCEPT !.aged = @ \cup {j.id}]
  /\ UNCHANGED <<dbVars, queueVars, runVars, metrics, check, llm, git, compare, analysis, boot>>

\* Queue.clean(grace, limit, type): the sets of jobs one call may remove,
\* jobs of that type older than the grace period, at most limit of them
\* (limit 0: all of them)
Cleanable(js, aged, limit, type) ==
  LET old == {j \in js : j.state = type /\ j.id \in aged}
  IN IF limit = 0 \/ Cardinality(old) <= limit
       THEN {old}
       ELSE {S \in SUBSET old : Cardinality(S) = limit}

\* cleanQueue(grace): the two Queue.clean calls
CleanQueue ==
  /\ cleanup.calls < MaxCleans
  /\ \E S1 \in Cleanable(jobs, cleanup.aged, CleanLimits[1], CleanType) :
       \E S2 \in Cleanable(jobs \ S1, cleanup.aged, CleanLimits[2], CleanType) :
         jobs' = (jobs \ S1) \ S2
  /\ cleanup' = [cleanup EXCEPT !.calls = @ + 1]
  /\ UNCHANGED <<dbVars, inflight, delivered, raised, lastAdd, directAdds, runVars>>
  /\ UNCHANGED <<metrics, check, llm, git, compare, analysis, boot>>

\* one submission, the worker, the passing of time and cleanQueue
NextClean ==
  \/ CreateStep
  \/ \E j \in jobs : WorkerActive(j)
  \/ \E j \in jobs : WorkerCompleted(j)
  \/ \E j \in jobs : WorkerStalled(j)
  \/ \E j \in jobs : GraceElapsed(j)
  \/ CleanQueue

SpecClean == Init /\ [][NextClean]_vars

\* ------------------------------------------------------------ getTaskStatus
\* getTaskStatus(taskId): findUnique reads the committed row and the reply
\* carries its status and progress
getTaskStatus(t) == [status |-> tasks[t].status, progress |-> tasks[t].progress]

\* ------------------------------------------------- updateTaskQualityMetrics
\* findFirst({task_id}): the call learns whether the task has a metric row
UpdateMetricsFind(t) ==
  /\ calls < MaxRuns
  /\ calls' = calls + 1
  /\ Spawn(NewRun(t, IF metrics[t] > 0 THEN "m_update" ELSE "m_create"))
  /\ UNCHANGED <<dbVars, queueVars>>
  /\ UNCHANGED <<metrics, serviceVars>>

\* qualityMetric.update on the row found, or qualityMetric.create; a create
\* for a task without a committed row fails on the foreign key
UpdateMetricsWrite(r, ok) ==
  /\ r \in Active /\ r.pc \in {"m_update", "m_create"}
  /\ metrics' = IF r.pc = "m_create" /\ ok /\ RowVisible(r.task)
                  THEN [metrics EXCEPT ![r.task] = @ + 1]
                  ELSE metrics
  /\ Return(r)
  /\ UNCHANGED <<dbVars, queueVars, calls>>
  /\ UNCHANGED serviceVars

NextMetrics ==
  \/ \E t \in TaskIds, ok \in BOOLEAN : CreateInsert(t, ok)
  \/ \E t \in TaskIds, ok \in BOOLEAN : CreateEnqueue(t, "none", ok)
  \/ \E t \in TaskIds, ok \in BOOLEAN : CreateCommit(t, ok)
  \/ \E t \in TaskIds : UpdateMetricsFind(t)
  \/ \E r \in Active, ok \in BOOLEAN : UpdateMetricsWrite(r, ok)

SpecMetrics == Init /\ [][NextMetrics]_vars

\* ------------------------------------------------- testSpecificOllamaModel
\* modelName as the callers pass it: the bare model name of the guide, and
\* the LLMProvider value, which carries the prefix already, of processRequirement
ProbeModelNames == {"llama3.1", "ollama-llama3.1"}

\* `ollama-${modelName}`
OllamaKey(modelName) ==
  CASE modelName = "llama3.1" -> "ollama-llama3.1"
    [] modelName = "ollama-llama3.1" -> "ollama-ollama-llama3.1"
    [] OTHER -> "ollama-unknown"

\* what the model's endpoint does with the canary prompt: a text, or an error
ProbeAnswers == {"OK", "Ok, I am working.", "Ready", "error"}

\* result.toLowerCase().includes('ok')
answerIncludesOk(text) == text \in {"OK", "Ok, I am working."}

\* testSpecificOllamaModel: callLLmApi with provider `ollama-${modelName}`
\* and useFallback false
TestSpecificOllamaModel(reg, modelName, answer) ==
  /\ llm.pc = "idle"
  /\ llm' = [NoCall EXCEPT !.pc = "direct", !.reg = reg, !.default = "openai",
                           !.provider = OllamaKey(modelName), !.useFallback = "false",
                           !.answer = answer, !.probe = "pending"]
  /\ UNCHANGED <<dbVars, queueVars, runVars, metrics, check, git, compare, cleanup, analysis, boot>>

\* the call returned a text or raised: includes('ok'), or false in the catch
ProbeReturn ==
  /\ llm.probe = "pending" /\ llm.pc \in {"returned", "failed"}
  /\ llm' = [llm EXCEPT !.pc = "probed",
                        !.probe = IF llm.pc = "returned" /\ answerIncludesOk(llm.answer)
                                    THEN "true" ELSE "false"]
  /\ UNCHANGED <<dbVars, queueVars, runVars, metrics, check, git, compare, cleanup, analysis, boot>>

NextProbe ==
  \/ /\ llm.pc = "idle"
     /\ \E reg \in Registries, modelName \in ProbeModelNames, answer \in ProbeAnswers :
          TestSpecificOllamaModel(reg, modelName, answer)
  \/ DirectCall(llm.answer # "error")
  \/ ProbeReturn

SpecProbe == Init /\ [][NextProbe]_vars

\* ----------------------------------------------------- structural analysis
\* StructuralAnalyzerProviderImpl: the constraints of a raw analysis result.

\* words a constraint type may contain as written; "zh-business" and
\* "zh-security" stand for the two Chinese tokens the code looks for
TypeWords == {"business", "BUSINESS", "zh-business", "security", "Security", "zh-security",
              "performance"}

\* constraint.type: missing, or a text with up to two of the words
RawTypes ==
  {[given |-> FALSE, words |-> {}]}
    \cup {[given |-> TRUE, words |-> W] : W \in {V \in SUBSET TypeWords : Cardinality(V) <= 2}}

\* toLowerCase, word by word
toLowerCase(word) ==
  CASE word = "BUSINESS" -> "business"
    [] word = "Security" -> "security"
    [] OTHER -> word

\* lowerType.includes(token)
includes(type, token) == \E w \in type.words : toLowerCase(w) = token

\* normalizeConstraintType: both the business and the security branch
\* return ConstraintType.BUSINESS
normalizeConstraintType(type) ==
  IF ~type.given \/ type.words = {} THEN "technical"
  ELSE IF includes(type, "zh-business") \/ includes(type, "business") THEN "business"
  ELSE IF includes(type, "zh-security") \/ includes(type, "security") THEN "business"
  ELSE "technical"

\* rawAnalysis.constraints
ConstraintLists == UNION {[1..n -> RawTypes] : n \in 0..MaxConstraints}

\* the constraints are mapped, each type through normalizeConstraintType
StandardizeConstraints(constraints) ==
  /\ analysis.pc = "idle"
  /\ analysis' = [pc |-> "standardized", constraints |-> constraints,
                  normalized |-> [n \in DOMAIN constraints |->
                                    normalizeConstraintType(constraints[n])]]
  /\ UNCHANGED <<dbVars, queueVars, runVars, metrics, check, llm, git, compare, cleanup, boot>>

NextAnalysis ==
  /\ analysis.pc = "idle"
  /\ \E constraints \in ConstraintLists : StandardizeConstraints(constraints)

SpecAnalysis == Init /\ [][NextAnalysis]_vars

\* ------------------------------------------------------------- start-up
\* NestFactory.create instantiates every provider, each after the providers
\* its constructor injects; the onModuleInit hooks are called once all
\* instances exist.

\* the providers of RequirementTaskModule, of the modules it imports, and of
\* the LLM and quality-check services
Providers == {"redis", "prisma", "queue", "task", "llmService", "llmIntegration", "quality"}

\* the providers a constructor injects
Injects(p) ==
  CASE p = "queue" -> {"redis"}
    [] p = "task" -> {"prisma", "queue"}
    [] p = "llmIntegration" -> {"llmService"}
    [] p = "quality" -> {"prisma", "llmIntegration"}
    [] OTHER -> {}

Built(b) == {b.built[n] : n \in DOMAIN b.built}

\* RequirementQueueServiceImpl.onModuleInit: the only assignment of this.worker
onModuleInit(b) == [b EXCEPT !.worker = TRUE, !.pc = "initialized"]

\* registerTaskProcessor: this.worker.on('completed', ...); with this.worker
\* undefined the call raises a TypeError
registerTaskProcessor(b) ==
  IF b.worker THEN [b EXCEPT !.registered = TRUE] ELSE [b EXCEPT !.pc = "failed"]

\* the constructor of a provider runs; the one of RequirementTaskServiceImpl
\* registers its processor with the queue service, and an exception in it
\* ends the start-up
Instantiate(p) ==
  /\ boot.pc = "constructing"
  /\ p \notin Built(boot)
  /\ Injects(p) \subseteq Built(boot)
  /\ LET b == IF p = "task" THEN registerTaskProcessor(boot) ELSE boot
     IN boot' = IF b.pc = "failed" THEN b ELSE [b EXCEPT !.built = Append(@, p)]
  /\ UNCHANGED <<dbVars, queueVars, runVars, metrics, check, llm, git, compare, cleanup, analysis>>

\* all instances exist: the module-init hooks are called
CallInitHooks ==
  /\ boot.pc = "constructing"
  /\ Built(boot) = Providers
  /\ boot' = onModuleInit(boot)
  /\ UNCHANGED <<dbVars, queueVars, runVars, metrics, check, llm, git, compare, cleanup, analysis>>

\* the hooks are not part of the steps: no start-up gets past the constructor
\* of RequirementTaskServiceImpl
NextBoot == \E p \in Providers : Instantiate(p)

SpecBoot == Init /\ [][NextBoot]_vars

\* ================================================================ claims

\* C1: the status values written to a task's row form a prefix of
\* pending, in_progress (one or more), then one of completed or failed;
\* nothing is written after completed or failed.
LegalHistory(h) ==
  /\ Len(h) <= 3
  /\ Len(h) >= 1 => h[1] = Pending
  /\ Len(h) >= 2 => h[2] = InProgress
  /\ Len(h) >= 3 => h[3] \in Terminal

C1_StatusHistory == \A t \in TaskIds : LegalHistory(writes[t])

\* C2: a task delivered to the registered processor is taken through the
\* pipeline by that delivery: it eventually reaches completed or failed.
C2_DeliveredTerminates ==
  \A t \in TaskIds : (t \in delivered) ~> (tasks[t].status \in Terminal)

\* C3: the number of running invocations of the registered processor never
\* exceeds the worker's concurrency.
C3_ConcurrencyBound == Cardinality(inflight) <= Concurrency

\* C4: a job whose processor invocation raised is retried (it is not left in
\* a terminal state while attempts remain), and no job is started more than
\* `attempts` times.
C4_RetryAfterFailure ==
  \A j \in jobs :
    /\ j.started <= Attempts
    /\ (j.id \in raised /\ j.started < Attempts) => j.state \in NonTerminalJob

\* C5: once a job is failed and no delivery is still running, the row of its
\* task has status failed.
C5_FailedProjected ==
  \A j \in jobs :
    (j.state = "failed" /\ RowVisible(j.taskId) /\ inflight = {})
      => tasks[j.taskId].status = Failed

\* C6: once createRequirementTask has returned or raised, either the row is
\* committed and a job for it is in the queue, or there is neither row nor job.
C6_CreateAtomic ==
  \A t \in TaskIds :
    tx[t] \in {"committed", "aborted"}
      => \/ RowVisible(t) /\ JobsOf(t) # {}
         \/ ~RowVisible(t) /\ JobsOf(t) = {}

\* C7: every job in a non-terminal state has a committed row, and the
\* delivery callback only runs for a task whose row it can find.
C7_RowBeforeJob ==
  /\ \A j \in jobs : j.state \in NonTerminalJob => RowVisible(j.taskId)
  /\ \A id \in inflight : RowVisible(TaskOfJob(id))

\* C8: at most one invocation of the processing callback per task is running.
C8_OneCallbackPerTask ==
  \A t \in TaskIds : Cardinality({id \in inflight : TaskOfJob(id) = t}) <= 1

\* a delivery is running for a task that was enqueued a second time
C8_Witness ==
  /\ directAdds > 0
  /\ \E id \in inflight : TaskOfJob(id) = lastAdd.task

\* C9: addTask for a task whose job is still waiting, active or delayed
\* returns that job's id and changes nothing in the queue (the waiting count
\* does not grow a second time).
C9_IdempotentEnqueue ==
  [][directAdds' # directAdds =>
       \A j \in jobs :
         (j.taskId = lastAdd'.task /\ j.state \in NonTerminalJob)
           => (lastAdd'.ret = j.id /\ jobs' = jobs)]_vars

\* a second addTask returned while the first job of the task had not been started
C9_Witness ==
  /\ directAdds > 0
  /\ \E j \in jobs : j.taskId = lastAdd.task /\ j.state = "waiting" /\ j.started = 0
  /\ lastAdd.ret = lastAdd.task

\* C10: updateTaskStatus changes a row only along pending -> in_progress,
\* in_progress -> in_progress, in_progress -> completed and any -> failed.
Permitted(from, to) ==
  \/ from = Pending /\ to = InProgress
  \/ from = InProgress /\ to \in {InProgress, Completed}
  \/ to = Failed

C10_TransitionsGuarded ==
  [][\A t \in TaskIds :
       (tasks[t].status # "none" /\ tasks'[t].status # "none" /\ tasks'[t] # tasks[t])
         => Permitted(tasks[t].status, tasks'[t].status)]_vars

\* C11: a task whose status is completed has progress 1.0 and a non-empty
\* commit hash in its details, whatever commitToGit returned.
C11_CompletedHasHash ==
  \A t \in TaskIds :
    tasks[t].status = Completed
      => (tasks[t].progress = 100 /\ tasks[t].details.commitHash \notin {"none", ""})

\* C12: between two consecutive in_progress writes to a row the progress
\* does not decrease; a write of completed sets progress 1.0 and a write of
\* failed sets progress 0.
C12_ProgressMonotone ==
  [][\A t \in TaskIds :
       (tasks[t].status # "none" /\ tasks'[t].status # "none" /\ tasks'[t] # tasks[t])
         => /\ (tasks[t].status = InProgress /\ tasks'[t].status = InProgress)
                 => tasks'[t].progress >= tasks[t].progress
            /\ tasks'[t].status = Completed => tasks'[t].progress = 100
            /\ tasks'[t].status = Failed => tasks'[t].progress = 0]_vars

\* C13: a quality check is only under way for an invocation whose generation
\* returned an artifact, and a commit is only attempted for a task that has a
\* quality_metrics row.
C13_StagesInOrder ==
  \A r \in Active :
    /\ r.pc \in {"quality", "checked", "committing"} => r.gen # "none"
    /\ r.pc = "committing" => metrics[r.task] >= 1

\* a commit is being attempted
C13_Witness == \E r \in Active : r.pc = "committing" /\ metrics[r.task] >= 1

\* the verdict checkCodeQuality returns with the scores q (whole points)
Verdict(q) == passed(overallScore(q.cq * 1000, q.rc * 1000, q.sv * 1000))

\* C14: no commit is attempted for an invocation whose quality verdict is
\* passed = false; such an invocation ends by marking the task failed with
\* "Low code quality score".
C14_LowQualityNotCommitted ==
  \A r \in Active : r.pc = "committing" => Verdict(r.q)

\* C15: checkCodeQuality returns passed = true exactly when
\* 0.5 codeQuality + 0.3 requirementCoverage + 0.2 syntaxValidity >= 85
\* (both sides times ten, scores in thousandths).
C15_PassedIffAggregate ==
  check.pc # "idle"
    => (check.passed <=> check.cq * 5 + check.rc * 3 + check.sv * 2 >= 850000)

\* a call returned with an aggregate of exactly 85 and passed = true
C15_Witness ==
  /\ check.pc = "saved"
  /\ check.cq * 5 + check.rc * 3 + check.sv * 2 = 850000
  /\ check.passed

\* C16: every quality_metrics row written has its three scores within [0, 100].
C16_ScoresInRange ==
  check.pc = "saved"
    => /\ check.cq >= 0 /\ check.cq <= 100000
       /\ check.rc >= 0 /\ check.rc <= 100000
       /\ check.sv >= 0 /\ check.sv <= 100000

\* the order the candidates are to be tried in: the enabled providers named
\* in fallbackOrder, then the enabled providers not named there
ExpectedOrder(reg, order) ==
  SelectSeq(order, LAMBDA n : reg[n] = "enabled")
    \o SelectSeq(ProviderNames,
                 LAMBDA n : reg[n] = "enabled" /\ \A i \in DOMAIN order : order[i] # n)

IsPrefix(a, b) == Len(a) <= Len(b) /\ \A i \in 1..Len(a) : a[i] = b[i]

\* the providers called so far, in order
Called == [i \in 1..Len(llm.log) |-> llm.log[i].name]

\* C17: callLLMApiWithFallback (no exclusions) calls the candidates in the
\* expected order, each only after the one before failed; it returns at the
\* first success with that provider's identifier, and raises only after every
\* candidate failed, with the last candidate's error.
C17_FallbackOrder ==
  (llm.pc # "idle" /\ llm.useFallback # "false" /\ llm.exclude = {})
    => LET exp == ExpectedOrder(llm.reg, llm.order)
       IN /\ IsPrefix(Called, exp)
          /\ \A i \in 1..(Len(llm.log) - 1) : ~llm.log[i].ok
          /\ llm.pc = "fallback" => \A i \in 1..Len(llm.log) : ~llm.log[i].ok
          /\ llm.pc = "returned"
               => /\ llm.log # <<>>
                  /\ llm.log[Len(llm.log)].ok
                  /\ llm.ret = llm.log[Len(llm.log)].name
          /\ llm.pc = "failed"
               => /\ Called = exp
                  /\ \A i \in 1..Len(llm.log) : ~llm.log[i].ok
                  /\ llm.lastError = IF exp = <<>> THEN "none" ELSE exp[Len(exp)]

\* the call returned the answer of the second candidate, the first being the
\* one fallbackOrder names and not the first registered
C17_Witness ==
  /\ llm.pc = "returned" /\ llm.useFallback # "false" /\ llm.exclude = {}
  /\ Len(llm.log) = 2
  /\ llm.order # <<>> /\ llm.log[1].name = llm.order[1]
  /\ llm.log[1].name # ProviderNames[1]
  /\ llm.ret = llm.log[2].name

\* C18: callLLMApiWithFallback calls no provider whose identifier is in
\* excludeProviders and skips, for the exclusion, only providers whose
\* identifier is in it.
C18_ExclusionByIdentifier ==
  (llm.pc # "idle" /\ llm.useFallback # "false")
    => /\ \A i \in 1..Len(llm.log) : llm.log[i].name \notin llm.exclude
       /\ \A n \in llm.skipped : n \in llm.exclude

\* the provider a call is meant for
Target == IF llm.provider # "none" THEN llm.provider ELSE llm.default

\* C19: a call (no exclusions) whose target, options.provider or else
\* defaultProvider, is enabled contacts the target first, with useFallback
\* unset as well as with useFallback = false.
C19_RoutedToTarget ==
  (llm.pc \in {"returned", "failed"} /\ llm.exclude = {} /\ llm.reg[Target] = "enabled")
    => (llm.log # <<>> /\ llm.log[1].name = Target)

\* C20: when commitToGit returns or raises after it created the temporary
\* directory, the directory has been removed, or its removal failed and was
\* logged; a failed removal changes neither a return into a raise nor the
\* error raised.
C20_TempDirRemoved ==
  (git.pc \in {"returned", "raised"} /\ git.failedAt \notin {"url", "mkdtemp"})
    => /\ git.dir = "removed" \/ (git.dir = "exists" /\ git.warned)
       /\ git.pc = "returned" <=> git.failedAt = "none"
       /\ git.pc = "raised" <=> git.failedAt \in Range(GitSteps)

\* commitToGit raised because the push failed, with the directory removed
C20_Witness ==
  /\ git.pc = "raised" /\ git.failedAt = "push"
  /\ git.dir = "removed" /\ git.written = MaxFiles

\* C21: commitToGit returns normally only with the hash of a commit it
\* created and pushed; it never returns an empty commit hash.
C21_ReturnsPushedCommit ==
  git.pc = "returned" => (git.hash # "" /\ git.failedAt = "none")

C23_FailedHasErrorAndStage ==
  \A t \in TaskIds :
    tasks[t].status = Failed
      => (tasks[t].details.error # "none" /\ tasks[t].details.stage # "none")

\* C24: when a comparison run completes, the artifact committed to the
\* task's own branch has the greatest file count, every other non-empty
\* artifact whose commit did not raise is committed to <branch>-<model>, and
\* the details list those comparison branches.
C24_ComparisonBranches ==
  (compare.pc = "completed" /\ compare.best # 0)
    => /\ PushedCommit("", compare.best) \in compare.commits
       /\ \A k \in DOMAIN compare.sizes : compare.sizes[k] <= compare.sizes[compare.best]
       /\ \A k \in DOMAIN compare.sizes :
            (k # compare.best /\ compare.sizes[k] > 0 /\ k \notin compare.failed)
              => /\ PushedCommit(cleanModelName(ComparisonModels[k]), k) \in compare.commits
                 /\ cleanModelName(ComparisonModels[k]) \in compare.listed

C26_CleanRemovesOldTerminal ==
  [][cleanup'.calls = cleanup.calls + 1
       => /\ \A j \in jobs' :
               ~(j.state \in {"completed", "failed"} /\ j.id \in cleanup.aged)
          /\ \A j \in jobs :
               ~(j.state \in {"completed", "failed"} /\ j.id \in cleanup.aged)
                 => j \in jobs']_vars

\* C27: once createRequirementTask has returned a task id, getTaskStatus for
\* that id yields pending and progress 0, whatever the queue worker did in
\* between.
C27_PendingAfterCreate ==
  \A t \in TaskIds :
    tx[t] = "committed"
      => (getTaskStatus(t).status = Pending /\ getTaskStatus(t).progress = 0)

\* C28: an invocation whose quality verdict is passed = true (aggregate of
\* at least 85) does not end by marking its task failed with "Low code
\* quality score".
C28_PassedNotRejected ==
  [][\A r \in Active :
       (r.pc = "checked" /\ Verdict(r.q) /\ CopiesIn(r, runs') < CopiesIn(r, runs))
         => ~(/\ tasks'[r.task] # tasks[r.task]
              /\ tasks'[r.task].status = Failed
              /\ tasks'[r.task].details.error = "Low code quality score")]_vars

\* C29: the syntax score is the share of valid files among the code files,
\* times 100 (in thousandths of a point), and 0 when the artifact has no code
\* file; entries that are no code files do not change it.
C29_SyntaxOverCodeFiles ==
  check.pc # "idle"
    => check.sv = IF check.syn[2] > 0
                    THEN (check.syn[1] * 100 * 1000) \div check.syn[2]
                    ELSE 0

\* C30: when the coverage call succeeds with a score c in 0..100, the
\* requirement coverage is 0.3 f 100 + 0.7 c, f being the file-structure
\* fraction (fsc is f in percent, scores are in thousandths of a point).
C30_CoverageWeights ==
  (check.pc # "idle" /\ check.cov.ok /\ check.cov.score \in 0..100)
    => check.rc = 300 * check.fsc + 700 * check.cov.score

\* C31: whatever the interleaving of updateTaskQualityMetrics calls, a task
\* has at most one quality_metrics row.
C31_OneMetricRow ==
  \A t \in TaskIds : metrics[t] <= 1

\* C32: an invocation whose artifact is empty, when it ends by marking its
\* task failed, does so at the quality gate, after a quality_metrics row was
\* written for the task, and not before the quality check.
C32_EmptyArtifactChecked ==
  [][\A r \in Active :
       (/\ r.gen = "empty"
        /\ CopiesIn(r, runs') < CopiesIn(r, runs)
        /\ tasks'[r.task] # tasks[r.task]
        /\ tasks'[r.task].status = Failed)
         => /\ tasks'[r.task].details.error = "Low code quality score"
            /\ metrics'[r.task] >= 1]_vars

\* C33: every file commitToGit writes lies in the working copy, below
\* repoTempDir/outputPath, whatever the keys of the artifact.
C33_WritesInsideWorkdir ==
  \A n \in DOMAIN git.paths :
    LET root == Normalize(repoTempDir \o git.outputPath, <<>>, TRUE)
    IN /\ Len(git.paths[n]) > Len(root)
       /\ SubSeq(git.paths[n], 1, Len(root)) = root

\* C35: for a task without output_path whose artifact keys are relative and
\* carry their directory, the filesChanged a returning commitToGit reports
\* are the keys, in artifact order.
C35_FilesChangedAreKeys ==
  (/\ git.pc = "returned"
   /\ git.taskOutputPath = <<>>
   /\ \A n \in DOMAIN git.keys :
        /\ ~git.keys[n].abs
        /\ Len(git.keys[n].segs) > 1
        /\ git.keys[n].segs[1] # "..")
    => git.filesChanged = [n \in DOMAIN git.keys |-> git.keys[n].segs]

\* C34: a probe of an enabled Ollama model whose endpoint answers the canary
\* prompt with a text containing "ok" returns true, with the model name in
\* either form the callers pass.
C34_ProbeFindsEnabledModel ==
  (/\ llm.pc = "probed"
   /\ llm.reg["ollama-llama3.1"] = "enabled"
   /\ answerIncludesOk(llm.answer))
    => llm.probe = "true"

\* C37: the adapter a call is handed to looks the configuration up under the
\* key of the entry that was selected, for every entry called.
C37_AdapterResolvesSelectedEntry ==
  \A i \in DOMAIN llm.log :
    getProvider(llm.reg, ApiType(llm.log[i].name)) = llm.log[i].name

\* C36: a constraint type with a business token is standardised to business,
\* one with a security token and no business token to security, any other
\* or missing type to technical.
C36_ConstraintTypes ==
  \A n \in DOMAIN analysis.normalized :
    LET type == analysis.constraints[n]
        business == \E w \in type.words : w \in {"business", "BUSINESS", "zh-business"}
        security == \E w \in type.words : w \in {"security", "Security", "zh-security"}
    IN analysis.normalized[n] =
         IF type.given /\ business THEN "business"
         ELSE IF type.given /\ security THEN "security"
         ELSE "technical"

\* C38: the registration made in the constructor of RequirementTaskServiceImpl
\* finds the worker that onModuleInit creates: the start-up does not fail in
\* registerTaskProcessor, and the task service is built with its processor
\* registered.
C38_RegistrationFindsWorker ==
  /\ boot.pc # "failed"
  /\ "task" \in Built(boot) => boot.registered

\* C39: when commitToGit has pushed a commit and returned its hash, the
\* invocation of the commit listener does not end before the row is completed
\* or failed: the task is not left in_progress at 80 percent.
C39_PushedCommitSettled ==
  [][\A r \in Active :
       (/\ r.pc = "c_committing"
        /\ CopiesIn(r, runs') < CopiesIn(r, runs)
        /\ BagCardinality(runs') < BagCardinality(runs))
         => tasks'[r.task].status \in {Completed, Failed}]_vars

\* C40: for a task whose language is csharp, ruby or php no entry of the
\* artifact is recognised as a code file: the syntax score is 0 and, with a
\* quality score and a coverage score within 0..100, the aggregate is at most
\* 80 and the verdict is not passed.
C40_UnlistedLanguageNeverPasses ==
  (check.pc # "idle" /\ check.language \in {"csharp", "ruby", "php"})
    => /\ check.sv = 0
       /\ (/\ check.cq \in 0..(100 * 1000)
           /\ check.cov.ok => check.cov.score \in 0..100)
            => /\ overallScore(check.cq, check.rc, check.sv) <= 80 * 1000 * 10
               /\ ~check.passed

\* a C# artifact whose source files are all valid and whose quality and
\* coverage scores are 100 was checked and did not pass
C40_Witness ==
  /\ check.pc = "saved"
  /\ check.language = "csharp"
  /\ check.syn = <<3, 4, 4>>
  /\ check.cq = 100 * 1000
  /\ check.rc = 100 * 1000
  /\ check.sv = 0
  /\ ~check.passed

====
